---------------------------- MODULE Spec2Model ----------------------------
(***************************************************************************)
(* Model of the KissECC curve-arithmetic library (src/src/*.rs).           *)
(*                                                                         *)
(* The field-element type T is i32 (the type the tests and main.rs         *)
(* instantiate).  `/` and `%` on i32 truncate toward zero, so `%` keeps    *)
(* the sign of the dividend; they are modelled by Div and Rem below.       *)
(* For the moduli used here (q <= 17) and operands in (-q, q) every        *)
(* intermediate product stays far below 2^31, so i32 arithmetic is exact   *)
(* and plain integers model it.                                            *)
(*                                                                         *)
(* A call that panics (a failed assert!, .expect() or .unwrap()) is the    *)
(* result Panic; a returned Err is the result Err.                         *)
(***************************************************************************)
EXTENDS Integers, FiniteSets, Sequences, TLC

VARIABLES curve, op, p1, p2, n, arg, pc, res, frame

vars == <<curve, op, p1, p2, n, arg, pc, res, frame>>

(***************************************************************************)
(* Bounds of the model.                                                    *)
(***************************************************************************)
\* largest scalar handed to mul
MaxScalar == 8
\* largest value of the z marker of an input point
MaxZ == 1
\* largest coordinate of the points handed to eq_affine
MaxCoord == 3
\* largest coefficient and largest modulus handed to a constructor
MaxCoef == 2
MaxNewQ == 5

(***************************************************************************)
(* i32 arithmetic.                                                         *)
(***************************************************************************)
Abs(v) == IF v < 0 THEN -v ELSE v

\* i32 `/`: truncates toward zero (b # 0 at every use)
Div(a, b) ==
    LET m == Abs(a) \div Abs(b)
    IN  IF (a >= 0) = (b >= 0) THEN m ELSE -m

\* i32 `%`: remainder of the truncating division, sign of the dividend
Rem(a, b) == a - b * Div(a, b)

(***************************************************************************)
(* Results of calls.                                                       *)
(***************************************************************************)
Pt(x, y, z) == [x |-> x, y |-> y, z |-> z]

NoPt == Pt(0, 0, 0)

OkPt(p) == [st |-> "ok", pt |-> p, val |-> 0]

OkVal(v) == [st |-> "ok", pt |-> NoPt, val |-> v]

\* Ok((p, q)): the pair of points returned by at
OkPair(p, q) == [st |-> "ok", pt |-> p, pt2 |-> q, val |-> 0]

\* a constructed curve instance c
OkCurve(c) == [st |-> "ok", pt |-> NoPt, val |-> 0, cv |-> c]

Err == [st |-> "err", pt |-> NoPt, val |-> 0]

Panic == [st |-> "panic", pt |-> NoPt, val |-> 0]

NoRes == [st |-> "none", pt |-> NoPt, val |-> 0]

(***************************************************************************)
(* utils.rs                                                                *)
(***************************************************************************)
RECURSIVE mod_inv_loop(_, _, _, _)
\* the while loop of mod_inv; yields the final <<t, r>>
mod_inv_loop(t, new_t, r, new_r) ==
    IF new_r = 0
    THEN <<t, r>>
    ELSE LET quotient == Div(r, new_r)
         IN  mod_inv_loop(new_t, t - quotient * new_t,
                          new_r, r - quotient * new_r)

\* the tail of mod_inv, after the loop: fin is the final <<t, r>>
mod_inv_result(fin, q) ==
    IF fin[2] > 1 THEN Err
    ELSE OkVal(IF fin[1] < 0 THEN fin[1] + q ELSE fin[1])

\* Utils::mod_inv
mod_inv(a, q) == mod_inv_result(mod_inv_loop(0, 1, q, a), q)

RECURSIVE modpow_loop(_, _, _, _)
\* the while loop of modpow; b is the running square, e the bits left
modpow_loop(result, b, e, modulus) ==
    IF ~(e > 0)
    THEN result
    ELSE modpow_loop(IF e % 2 = 1 THEN Rem(result * b, modulus) ELSE result,
                     Rem(b * b, modulus), e \div 2, modulus)

\* Utils::modpow (modulus # 0 at every use)
modpow(base, exp, modulus) == modpow_loop(1, Rem(base, modulus), exp, modulus)

RECURSIVE ts_odd_part(_, _)
\* tonelli_shanks: p - 1 = q * 2^s with q odd; yields <<q, s>>
ts_odd_part(q, s) ==
    IF q % 2 = 0 THEN ts_odd_part(q \div 2, s + 1) ELSE <<q, s>>

RECURSIVE ts_non_residue(_, _, _)
\* tonelli_shanks: the first z >= 2 whose Legendre power is not 1
ts_non_residue(z, exp, p) ==
    IF modpow(z, exp, p) = 1 THEN ts_non_residue(z + 1, exp, p) ELSE z

RECURSIVE ts_least_i(_, _, _, _)
\* tonelli_shanks: the inner while loop, yields the final i
ts_least_i(t, i, m, p) ==
    IF i < m /\ modpow(t, 2 ^ i, p) # 1
    THEN ts_least_i(t, i + 1, m, p)
    ELSE i

RECURSIVE ts_loop(_, _, _, _, _)
\* tonelli_shanks: the updates of x, t, c, m once b is computed
ts_adjust(x, t, i, p, b) ==
    ts_loop(Rem(b * b, p), Rem(x * b, p), Rem(t * b * b, p), i, p)

\* tonelli_shanks: the body of the main loop once i is found
ts_step(c, x, t, m, p, i) ==
    IF i = m THEN Err
    ELSE ts_adjust(x, t, i, p, modpow(c, 2 ^ (m - i - 1), p))

\* ts_loop that returns the first candidate x without adjusting it
ts_loop_first_x(c, x, t, m, p) == OkVal(x)

\* tonelli_shanks: the main loop
ts_loop(c, x, t, m, p) ==
    IF t = 1 THEN OkVal(x)
    ELSE ts_step(c, x, t, m, p, ts_least_i(t, 1, m, p))

\* tonelli_shanks after the Legendre test; qs is <<q, s>>
ts_start(a, p, exp, qs) ==
    ts_loop(modpow(ts_non_residue(2, exp, p), qs[1], p),
            modpow(a, (qs[1] + 1) \div 2, p),
            modpow(a, qs[1], p),
            qs[2], p)

\* Utils::tonelli_shanks; None is the result Err
tonelli_shanks(a, p) ==
    IF a = 0 THEN OkVal(0)
    ELSE IF p < 0 THEN Panic
    ELSE IF modpow(a, (p - 1) \div 2, p) # 1 THEN Err
    ELSE ts_start(a, p, (p - 1) \div 2, ts_odd_part(p - 1, 0))

(***************************************************************************)
(* point.rs                                                                *)
(***************************************************************************)
\* eq_affine_scaled that compares the coordinates without scaling them by
\* the inverses of z
eq_affine_unscaled(self, other, q, inv_self_z, inv_other_z) ==
    IF inv_self_z.st # "ok" \/ inv_other_z.st # "ok"
    THEN Panic
    ELSE OkVal(IF Rem(self.x, q) = Rem(other.x, q)
                  /\ Rem(self.y, q) = Rem(other.y, q) THEN 1 ELSE 0)

\* the comparison of eq_affine once both inverses are computed
eq_affine_scaled(self, other, q, inv_self_z, inv_other_z) ==
    IF inv_self_z.st # "ok" \/ inv_other_z.st # "ok"
    THEN Panic
    ELSE LET x1 == Rem(self.x * inv_self_z.val, q)
             y1 == Rem(self.y * inv_self_z.val, q)
             x2 == Rem(other.x * inv_other_z.val, q)
             y2 == Rem(other.y * inv_other_z.val, q)
         IN  OkVal(IF x1 = x2 /\ y1 = y2 THEN 1 ELSE 0)

\* Point::eq_affine; val is 1 for true and 0 for false
eq_affine(self, other, q) ==
    IF self.z = 0 \/ other.z = 0
    THEN OkVal(IF self = other THEN 1 ELSE 0)
    ELSE eq_affine_scaled(self, other, q,
                          mod_inv(self.z, q), mod_inv(other.z, q))

(***************************************************************************)
(* weierstrass_ecc.rs                                                      *)
(***************************************************************************)
W_identity == Pt(0, 0, 0)

\* WeierstrassECC::new; a failed assert! is the result Panic
W_new(c) ==
    IF ~(c.q > 2) \/ ~(c.a # 0) \/ ~(c.b # 0) THEN Panic ELSE OkCurve(c)

\* WeierstrassECC::normalize
W_normalize(c, p) ==
    IF p = W_identity
    THEN p
    ELSE Pt(Rem(Rem(p.x, c.q) + c.q, c.q), Rem(Rem(p.y, c.q) + c.q, c.q), 1)

\* WeierstrassECC::is_valid
W_is_valid(c, p) ==
    IF p.x = 0 /\ p.y = 0
    THEN TRUE
    ELSE Rem(p.y * p.y, c.q) = Rem(p.x * p.x * p.x + c.a * p.x + c.b, c.q)

\* the end of add and double: the point (x3, y3) on the line of slope l
\* through p, with x3 = l*l - xsum; z0 is the z the code builds it with
W_chord_point(c, p, l, xsum, z0) ==
    LET rx == Rem(l * l - xsum, c.q)
    IN  OkPt(W_normalize(c, Pt(rx, Rem(l * (p.x - rx) - p.y, c.q), z0)))

\* add after the early returns, inv being the result of mod_inv
W_add_slope(c, p, q, inv) ==
    IF inv.st # "ok" THEN Panic
    ELSE W_chord_point(c, p,
                       IF p.x = q.x
                       THEN Rem((3 * p.x * q.x + c.a) * inv.val, c.q)
                       ELSE Rem((q.y - p.y) * inv.val, c.q),
                       p.x + q.x, 0)

\* WeierstrassECC::add
W_add(c, p, q) ==
    IF ~W_is_valid(c, p) \/ ~W_is_valid(c, q) THEN Panic
    ELSE IF p = W_identity THEN OkPt(q)
    ELSE IF q = W_identity THEN OkPt(p)
    ELSE IF p.x = q.x /\ (p.y # q.y \/ p.y = 0) THEN OkPt(W_identity)
    ELSE W_add_slope(c, p, q,
                     mod_inv(IF p.x = q.x THEN 2 * p.y
                                          ELSE Rem(q.x - p.x, c.q), c.q))

\* double after the early returns, inv_den being the result of mod_inv
W_double_slope(c, p, inv_den) ==
    IF inv_den.st # "ok" THEN Panic
    ELSE W_chord_point(c, p,
                       Rem(Rem(3 * (p.x * p.x) + c.a, c.q) * inv_den.val, c.q),
                       2 * p.x, 1)

\* WeierstrassECC::double
W_double(c, p) ==
    IF p = W_identity THEN OkPt(p)
    ELSE IF p.y = 0 THEN OkPt(W_identity)
    ELSE W_double_slope(c, p, mod_inv(Rem(2 * p.y, c.q), c.q))

\* W_at_root that pairs the root y with itself instead of with q - y
W_at_root_same_y(c, x, root) ==
    IF root.st # "ok" THEN root
    ELSE OkPair(W_normalize(c, Pt(x, root.val, 1)),
                W_normalize(c, Pt(x, root.val, 1)))

\* at once tonelli_shanks has answered with root
W_at_root(c, x, root) ==
    IF root.st # "ok" THEN root
    ELSE OkPair(W_normalize(c, Pt(x, root.val, 1)),
                W_normalize(c, Pt(x, Rem(c.q - root.val, c.q), 1)))

\* WeierstrassECC::at
W_at(c, x) ==
    IF x >= c.q THEN Err
    ELSE W_at_root(c, x,
                   tonelli_shanks(Rem(x * x * x + c.a * x + c.b, c.q), c.q))

(***************************************************************************)
(* edwards_curve.rs                                                        *)
(***************************************************************************)
\* the `zero` field set by EdwardsCurve::new
E_zero == Pt(0, 1, 0)

\* EdwardsCurve::new: it asserts nothing; it panics when (q-1)/4 does not
\* convert to u32 or when modpow divides by q = 0
E_new(c) ==
    IF Div(c.q - 1, 4) < 0 \/ c.q = 0 THEN Panic ELSE OkCurve(c)

\* the field `i` set by EdwardsCurve::new
E_i(c) == modpow(2, Div(c.q - 1, 4), c.q)

\* xrecover: the parity adjustment of the root x
E_xrecover_even(c, x) == OkVal(IF Rem(x, 2) # 0 THEN c.q - x ELSE x)

\* xrecover: x is the candidate xx^((q+3)/8), multiplied by i if its square
\* is not xx
E_xrecover_root(c, xx, x) ==
    E_xrecover_even(c, IF Rem(x * x - xx, c.q) # 0 THEN Rem(x * E_i(c), c.q)
                                                  ELSE x)

\* xrecover once xx is computed
E_xrecover_xx(c, xx) ==
    E_xrecover_root(c, xx, modpow(xx, Div(c.q + 3, 8), c.q))

\* xrecover once the denominator is inverted
E_xrecover_inv(c, numerator, inv_denominator) ==
    IF inv_denominator.st # "ok" THEN Err
    ELSE E_xrecover_xx(c, Rem(numerator * inv_denominator.val, c.q))

\* xrecover once y2 is computed
E_xrecover_y2(c, y2) ==
    E_xrecover_inv(c, Rem(y2 - 1, c.q), mod_inv(Rem(c.b * y2 + 1, c.q), c.q))

\* EdwardsCurve::xrecover (c.b holds the coefficient d)
E_xrecover(c, y) == E_xrecover_y2(c, Rem(y * y, c.q))

\* at once xrecover has answered with x
E_at_x(c, y, x) ==
    IF x.st # "ok" THEN x
    ELSE OkPair(Pt(x.val, y, 0),
                Pt(IF x.val = 0 THEN x.val ELSE c.q - x.val, y, 0))

\* EdwardsCurve::at
E_at(c, y) == E_at_x(c, y, E_xrecover(c, y))

\* EdwardsCurve::is_valid
E_is_valid(c, point) ==
    LET x == point.x
        y == point.y
        left == Rem(c.a * x * x + y * y, c.q)
        right == Rem(1 + c.b * x * x * y * y, c.q)
    IN  left = right

\* the quotients of add once both inverses are computed
E_add_point(c, p, q, inv_denom1, inv_denom2) ==
    IF inv_denom1.st # "ok" \/ inv_denom2.st # "ok" THEN Panic
    ELSE OkPt(Pt(Rem((p.x * q.y + q.x * p.y) * inv_denom1.val, c.q),
                 Rem((p.y * q.y + p.x * q.x) * inv_denom2.val, c.q),
                 0))

\* EdwardsCurve::add (c.b holds the coefficient d)
E_add(c, p, q) ==
    E_add_point(c, p, q,
                mod_inv(Rem(1 + c.b * p.x * q.x * p.y * q.y, c.q), c.q),
                mod_inv(Rem(1 - c.b * p.x * q.x * p.y * q.y, c.q), c.q))

\* EdwardsCurve::double
E_double(c, p) == E_add(c, p, p)

(***************************************************************************)
(* twisted_curve.rs                                                        *)
(***************************************************************************)
\* the `zero` field set by TwistedCurve::new
T_zero == Pt(0, 1, 0)

\* TwistedCurve::new; a failed assert! is the result Panic
T_new(c) ==
    IF ~(c.q > 2) \/ ~(c.a # 0) \/ ~(c.b # 0) \/ ~(c.a # c.b) THEN Panic
    ELSE OkCurve(c)

\* the field `I` set by TwistedCurve::new
T_I(c) == modpow(2, Div(c.q - 1, 4), c.q)

\* xrecover: the parity adjustment of the root x
T_xrecover_even(c, x) == OkVal(IF Rem(x, 2) # 0 THEN c.q - x ELSE x)

\* xrecover: x is the candidate xx^((q+3)/8), multiplied by I if its square
\* is not xx
T_xrecover_root(c, xx, x) ==
    T_xrecover_even(c, IF Rem(x * x - xx, c.q) # 0 THEN Rem(x * T_I(c), c.q)
                                                  ELSE x)

\* xrecover once xx is computed
T_xrecover_xx(c, xx) ==
    T_xrecover_root(c, xx, modpow(xx, Div(c.q + 3, 8), c.q))

\* xrecover once the denominator is inverted
T_xrecover_inv(c, numerator, inv_den) ==
    IF inv_den.st # "ok" THEN Err
    ELSE T_xrecover_xx(c, Rem(numerator * inv_den.val, c.q))

\* xrecover once y2 is computed
T_xrecover_y2(c, y2) ==
    T_xrecover_inv(c, Rem(y2 - 1, c.q), mod_inv(Rem(c.b * y2 + 1, c.q), c.q))

\* TwistedCurve::xrecover
T_xrecover(c, y) == T_xrecover_y2(c, Rem(y * y, c.q))

\* the quotients of edwards_add once both inverses are computed
T_add_point(c, p, q, inv_denom1, inv_denom2) ==
    IF inv_denom1.st # "ok" \/ inv_denom2.st # "ok" THEN Panic
    ELSE OkPt(Pt(Rem((p.x * q.y + q.x * p.y) * inv_denom1.val, c.q),
                 Rem((p.y * q.y - c.a * p.x * q.x) * inv_denom2.val, c.q),
                 0))

\* the two divisors of edwards_add, inverted
T_add_factor(c, p, q, factor) ==
    T_add_point(c, p, q,
                mod_inv(Rem(1 + factor, c.q), c.q),
                mod_inv(Rem(1 - factor, c.q), c.q))

\* TwistedCurve::edwards_add
T_edwards_add(c, p, q) ==
    T_add_factor(c, p, q, Rem(c.b * p.x * q.x * p.y * q.y, c.q))

\* TwistedCurve::is_valid
T_is_valid(c, point) ==
    LET x == point.x
        y == point.y
        left == Rem(0 - x * x + y * y - 1 - c.b * x * x * y * y, c.q)
    IN  left = 0

\* at once xrecover has answered with x
T_at_x(c, y, x) ==
    IF x.st # "ok" THEN x
    ELSE OkPair(Pt(x.val, y, 0),
                Pt(IF x.val = 0 THEN x.val ELSE c.q - x.val, y, 0))

\* TwistedCurve::at
T_at(c, y) == T_at_x(c, y, T_xrecover(c, y))

\* TwistedCurve::add
T_add(c, p, q) ==
    IF p = T_zero THEN OkPt(q)
    ELSE IF q = T_zero THEN OkPt(p)
    ELSE T_edwards_add(c, p, q)

\* TwistedCurve::double
T_double(c, p) == T_add(c, p, p)

(***************************************************************************)
(* montgomery_curve.rs                                                     *)
(***************************************************************************)
\* the `zero` field set by MontgomeryCurve::new
M_zero == Pt(0, 1, 0)

\* MontgomeryCurve::new; a failed assert! is the result Panic
M_new(c) ==
    IF ~(c.q > 2) \/ ~(c.a # 0 /\ c.b # 0) THEN Panic ELSE OkCurve(c)

\* MontgomeryCurve::is_zero
M_is_zero(p) == p = M_zero

\* MontgomeryCurve::is_valid (c.a holds A, c.b holds B)
M_is_valid(c, p) ==
    IF M_is_zero(p) THEN TRUE
    ELSE LET x == p.x
             y == p.y
             left == Rem(c.b * y * y, c.q)
             right == Rem(x * x * x + c.a * x * x + x, c.q)
         IN  left = right

\* MontgomeryCurve::at
M_at(c, x) == Err

\* the end of add: y3 from x3, then both made non-negative
M_add_point(c, p, lambda, x3) ==
    OkPt(Pt(Rem(x3 + c.q, c.q),
            Rem(Rem(lambda * (p.x - x3) - p.y, c.q) + c.q, c.q),
            1))

\* x3 = B*lambda^2 - A - xsum
M_add_lambda(c, p, lambda, xsum) ==
    M_add_point(c, p, lambda, Rem(c.b * lambda * lambda - c.a - xsum, c.q))

\* add after the early returns, inv_den being the result of mod_inv
M_add_slope(c, p, q, inv_den) ==
    IF inv_den.st # "ok" THEN Panic
    ELSE IF p = q
         THEN M_add_lambda(c, p,
                  Rem(Rem(3 * p.x * p.x + 2 * c.a * p.x + 1, c.q) * inv_den.val, c.q),
                  2 * p.x)
         ELSE M_add_lambda(c, p,
                  Rem(Rem(q.y - p.y, c.q) * inv_den.val, c.q),
                  p.x + q.x)

\* MontgomeryCurve::add
M_add(c, p, q) ==
    IF M_is_zero(p) THEN OkPt(q)
    ELSE IF M_is_zero(q) THEN OkPt(p)
    ELSE IF p.x = q.x /\ p.y # q.y THEN OkPt(M_zero)
    ELSE M_add_slope(c, p, q,
                     mod_inv(IF p = q THEN Rem(2 * c.b * p.y, c.q)
                                      ELSE Rem(q.x - p.x, c.q), c.q))

\* MontgomeryCurve::double
M_double(c, p) == M_add(c, p, p)

(***************************************************************************)
(* The EllipticCurve capability: dispatch on the variant.                  *)
(***************************************************************************)
\* the identity point of the variant
identity(c) ==
    CASE c.kind = "W" -> W_identity
      [] c.kind = "E" -> E_zero
      [] c.kind = "T" -> T_zero
      [] c.kind = "M" -> M_zero

is_valid(c, p) ==
    CASE c.kind = "W" -> W_is_valid(c, p)
      [] c.kind = "E" -> E_is_valid(c, p)
      [] c.kind = "T" -> T_is_valid(c, p)
      [] c.kind = "M" -> M_is_valid(c, p)

at(c, v) ==
    CASE c.kind = "W" -> W_at(c, v)
      [] c.kind = "E" -> E_at(c, v)
      [] c.kind = "T" -> T_at(c, v)
      [] c.kind = "M" -> M_at(c, v)

add(c, p, q) ==
    CASE c.kind = "W" -> W_add(c, p, q)
      [] c.kind = "E" -> E_add(c, p, q)
      [] c.kind = "T" -> T_add(c, p, q)
      [] c.kind = "M" -> M_add(c, p, q)

double(c, p) ==
    CASE c.kind = "W" -> W_double(c, p)
      [] c.kind = "E" -> E_double(c, p)
      [] c.kind = "T" -> T_double(c, p)
      [] c.kind = "M" -> M_double(c, p)

RECURSIVE mul_loop(_, _, _, _)
\* the end of an iteration: m is the result of m2 = add(m2, m2)
mul_doubled(c, n_c, r, m) ==
    IF m.st # "ok" THEN Panic
    ELSE mul_loop(c, n_c \div 2, r, m.pt)

\* the middle of an iteration: r1 is r, or the result of r = add(r, m2)
mul_added(c, n_c, r1, m2) ==
    IF r1.st # "ok" THEN Panic
    ELSE mul_doubled(c, n_c, r1.pt, add(c, m2, m2))

\* the double-and-add loop shared by the four mul methods; yields r
mul_loop(c, n_c, r, m2) ==
    IF ~(n_c > 0)
    THEN OkPt(r)
    ELSE mul_added(c, n_c,
                   IF n_c % 2 = 1 THEN add(c, r, m2) ELSE OkPt(r), m2)

\* the tail of WeierstrassECC::mul
W_mul_result(c, r) == IF r.st # "ok" THEN r ELSE OkPt(W_normalize(c, r.pt))

\* W_mul with the accumulator r started at p instead of the zero point
W_mul_acc_from_p(c, k, p) == W_mul_result(c, mul_loop(c, k, p, p))

\* WeierstrassECC::mul
W_mul(c, k, p) == W_mul_result(c, mul_loop(c, k, W_identity, p))

\* EdwardsCurve::mul
E_mul(c, k, p) == mul_loop(c, k, E_zero, p)

\* TwistedCurve::mul
T_mul(c, k, p) == mul_loop(c, k, T_zero, p)

\* MontgomeryCurve::mul
M_mul(c, k, p) == mul_loop(c, k, M_zero, p)

mul(c, k, p) ==
    CASE c.kind = "W" -> W_mul(c, k, p)
      [] c.kind = "E" -> E_mul(c, k, p)
      [] c.kind = "T" -> T_mul(c, k, p)
      [] c.kind = "M" -> M_mul(c, k, p)

RECURSIVE order_loop(_, _, _, _)
\* the end of an iteration: nxt is the result of add(current, g), ord is
\* already incremented
order_added(c, g, ord, nxt) ==
    IF nxt.st # "ok" THEN Panic
    ELSE IF ord > c.q THEN Err
    ELSE order_loop(c, g, ord, nxt.pt)

\* the search loop shared by the four order methods
order_loop(c, g, ord, current) ==
    IF current = identity(c)
    THEN OkVal(ord)
    ELSE order_added(c, g, ord + 1, add(c, current, g))

\* WeierstrassECC::order
W_order(c, g) ==
    IF ~W_is_valid(c, g) \/ g = W_identity
    THEN Err
    ELSE order_loop(c, g, 1, g)

\* EdwardsCurve::order
E_order(c, g) == order_loop(c, g, 1, g)

\* TwistedCurve::order
T_order(c, g) == order_loop(c, g, 1, g)

\* MontgomeryCurve::order
M_order(c, g) == order_loop(c, g, 1, g)

order(c, g) ==
    CASE c.kind = "W" -> W_order(c, g)
      [] c.kind = "E" -> E_order(c, g)
      [] c.kind = "T" -> T_order(c, g)
      [] c.kind = "M" -> M_order(c, g)

\* the constructor of the variant, handed the arguments c
new(c) ==
    CASE c.kind = "W" -> W_new(c)
      [] c.kind = "E" -> E_new(c)
      [] c.kind = "T" -> T_new(c)
      [] c.kind = "M" -> M_new(c)

(***************************************************************************)
(* dsa.rs                                                                  *)
(***************************************************************************)
\* the end of DSA::new: ord is the result of ec.order(&g), unwrapped by
\* .expect()
DSA_new_n(ord) == IF ord.st # "ok" THEN Panic ELSE ord

\* DSA::new; the result holds the field n of the instance
DSA_new(g, ec) ==
    IF ~is_valid(ec, g) THEN Panic ELSE DSA_new_n(order(ec, g))

(***************************************************************************)
(* Curve instances.  A curve is [kind, a, b, q]: a, b are the two model    *)
(* coefficients in constructor order (a, b / a, d / a, b / A, B).  Every   *)
(* instance passes its constructor's assertions, has a prime q and is      *)
(* non-singular (Weierstrass: 4a^3 + 27b^2 # 0; Montgomery: B(A^2-4) # 0;  *)
(* Edwards models: a a square and d a non-square, so the addition law is   *)
(* complete).  The q = 17 Weierstrass, Edwards and twisted curves are the  *)
(* ones the tests construct.                                               *)
(***************************************************************************)
Cv(kind, a, b, q) == [kind |-> kind, a |-> a, b |-> b, q |-> q]

Curves ==
    { Cv("W", 2, 3, 17), Cv("W", 1, 1, 7),
      Cv("E", 2, 3, 17), Cv("E", 1, 2, 13),
      Cv("T", 2, 3, 17), Cv("T", 12, 2, 13),
      Cv("M", 3, 2, 17), Cv("M", 3, 1, 7) }

(***************************************************************************)
(* The defining equation of each variant, over the integers mod q.         *)
(***************************************************************************)
Mod(v, q) == ((v % q) + q) % q

OnCurve(c, p) ==
    CASE c.kind = "W" ->
           Mod(p.y * p.y - (p.x * p.x * p.x + c.a * p.x + c.b), c.q) = 0
      [] c.kind \in {"E", "T"} ->
           Mod(c.a * p.x * p.x + p.y * p.y
                 - (1 + c.b * p.x * p.x * p.y * p.y), c.q) = 0
      [] c.kind = "M" ->
           Mod(c.b * p.y * p.y
                 - (p.x * p.x * p.x + c.a * p.x * p.x + p.x), c.q) = 0

(***************************************************************************)
(* Inputs.                                                                 *)
(***************************************************************************)
AllPoints(c) ==
    { Pt(x, y, z) : x \in 0..(c.q - 1), y \in 0..(c.q - 1), z \in 0..MaxZ }

\* points a caller can take for points of the curve
ValidPoints(c) == { p \in AllPoints(c) : is_valid(c, p) \/ OnCurve(c, p) }

\* one point of the curve other than the identity
BasePoint(c) ==
    CHOOSE g \in AllPoints(c) :
        is_valid(c, g) /\ OnCurve(c, g) /\ g # identity(c)

\* the second operand of add: any valid point for a valid p; for an invalid
\* p the identity and one point of the curve
Partners(c, p) ==
    IF is_valid(c, p) \/ OnCurve(c, p)
    THEN ValidPoints(c)
    ELSE {identity(c), BasePoint(c)}

\* the points handed to eq_affine: small coordinates, and a z that is 0,
\* invertible, or the multiple q of the modulus
EqPoints(c) ==
    { Pt(x, y, z) : x \in 0..MaxCoord, y \in 0..MaxCoord, z \in {0, 1, 2, c.q} }

\* the scalar handed to mod_inv, tonelli_shanks and at
Scalars(c) == (0 - c.q)..c.q

\* the arguments a caller can hand to a constructor
NewArgs ==
    { Cv(kind, ca, cb, q) : kind \in {"W", "E", "T", "M"},
                            ca \in 0..MaxCoef, cb \in 0..MaxCoef,
                            q \in 0..MaxNewQ }

Ops == {"add", "double", "mul", "order", "is_valid", "at", "new", "dsa_new",
        "mod_inv", "tonelli_shanks", "eq_affine"}

(***************************************************************************)
(* The locals of a running mul: the accumulator r, the running double m2   *)
(* and the scalar bits left n_c, with counters of the loop iterations      *)
(* completed and of the calls of add that accumulate (r = add(r, m2)) and  *)
(* that double (m2 = add(m2, m2)).                                         *)
(***************************************************************************)
Frame(r, m2, n_c, iters, adds, doubles) ==
    [r |-> r, m2 |-> m2, n_c |-> n_c,
     iters |-> iters, adds |-> adds, doubles |-> doubles]

NoFrame == Frame(NoPt, NoPt, 0, 0, 0, 0)

\* the end of an iteration: m is the result of m2 = add(m2, m2); acc is 1
\* when the iteration accumulated
mul_iter_doubled(f, r1, acc, m) ==
    IF m.st # "ok"
    THEN [st |-> "panic", fr |-> f]
    ELSE [st |-> "ok",
          fr |-> Frame(r1, m.pt, f.n_c \div 2,
                       f.iters + 1, f.adds + acc, f.doubles + 1)]

\* the middle of an iteration: r1 is r, or the result of r = add(r, m2)
mul_iter_added(c, f, r1, acc) ==
    IF r1.st # "ok"
    THEN [st |-> "panic", fr |-> f]
    ELSE mul_iter_doubled(f, r1.pt, acc, add(c, f.m2, f.m2))

\* one iteration of the double-and-add loop on the frame f
mul_iter(c, f) ==
    mul_iter_added(c, f,
                   IF f.n_c % 2 = 1 THEN add(c, f.r, f.m2) ELSE OkPt(f.r),
                   IF f.n_c % 2 = 1 THEN 1 ELSE 0)

(***************************************************************************)
(* The state machine: a curve is constructed, one operation is called on   *)
(* it with inputs drawn from the bounded sets, and the call returns.       *)
(***************************************************************************)
Init ==
    /\ op \in Ops
    /\ curve \in IF op = "new" THEN NewArgs ELSE Curves
    /\ p1 \in CASE op \in {"add", "double", "mul", "order", "is_valid", "dsa_new"}
                     -> AllPoints(curve)
                 [] op = "eq_affine" -> EqPoints(curve)
                 [] OTHER -> {NoPt}
    /\ p2 \in CASE op = "add" -> Partners(curve, p1)
                 [] op = "eq_affine" -> EqPoints(curve)
                 [] OTHER -> {identity(curve)}
    /\ n \in IF op = "mul" THEN 0..MaxScalar ELSE {0}
    /\ arg \in IF op \in {"at", "mod_inv", "tonelli_shanks"}
                THEN Scalars(curve) ELSE {0}
    /\ pc = "call"
    /\ res = NoRes
    /\ frame = NoFrame

Add ==
    /\ pc = "call" /\ op = "add"
    /\ res' = add(curve, p1, p2)
    /\ pc' = "done"
    /\ UNCHANGED <<curve, op, p1, p2, n, arg, frame>>

Double ==
    /\ pc = "call" /\ op = "double"
    /\ res' = double(curve, p1)
    /\ pc' = "done"
    /\ UNCHANGED <<curve, op, p1, p2, n, arg, frame>>

Mul ==
    /\ pc = "call" /\ op = "mul"
    /\ res' = mul(curve, n, p1)
    /\ pc' = "done"
    /\ UNCHANGED <<curve, op, p1, p2, n, arg, frame>>

Order ==
    /\ pc = "call" /\ op = "order"
    /\ res' = order(curve, p1)
    /\ pc' = "done"
    /\ UNCHANGED <<curve, op, p1, p2, n, arg, frame>>

\* is_valid returns a bool: val is 1 for true and 0 for false
IsValid ==
    /\ pc = "call" /\ op = "is_valid"
    /\ res' = OkVal(IF is_valid(curve, p1) THEN 1 ELSE 0)
    /\ pc' = "done"
    /\ UNCHANGED <<curve, op, p1, p2, n, arg, frame>>

At ==
    /\ pc = "call" /\ op = "at"
    /\ res' = at(curve, arg)
    /\ pc' = "done"
    /\ UNCHANGED <<curve, op, p1, p2, n, arg, frame>>

\* a constructor is called; curve holds the arguments it is handed
New ==
    /\ pc = "call" /\ op = "new"
    /\ res' = new(curve)
    /\ pc' = "done"
    /\ UNCHANGED <<curve, op, p1, p2, n, arg, frame>>

DsaNew ==
    /\ pc = "call" /\ op = "dsa_new"
    /\ res' = DSA_new(p1, curve)
    /\ pc' = "done"
    /\ UNCHANGED <<curve, op, p1, p2, n, arg, frame>>

ModInv ==
    /\ pc = "call" /\ op = "mod_inv"
    /\ res' = mod_inv(arg, curve.q)
    /\ pc' = "done"
    /\ UNCHANGED <<curve, op, p1, p2, n, arg, frame>>

TonelliShanks ==
    /\ pc = "call" /\ op = "tonelli_shanks"
    /\ res' = tonelli_shanks(arg, curve.q)
    /\ pc' = "done"
    /\ UNCHANGED <<curve, op, p1, p2, n, arg, frame>>

EqAffine ==
    /\ pc = "call" /\ op = "eq_affine"
    /\ res' = eq_affine(p1, p2, curve.q)
    /\ pc' = "done"
    /\ UNCHANGED <<curve, op, p1, p2, n, arg, frame>>

(***************************************************************************)
(* mul step by step: the call enters the loop, runs it one iteration at a  *)
(* time, and returns; an add that panics ends the call.                    *)
(***************************************************************************)
InitMulLoop ==
    /\ curve \in Curves
    /\ op = "mul"
    /\ p1 \in AllPoints(curve)
    /\ p2 = identity(curve)
    /\ n \in 0..MaxScalar
    /\ arg = 0
    /\ pc = "call"
    /\ res = NoRes
    /\ frame = NoFrame

MulEnter ==
    /\ pc = "call" /\ op = "mul"
    /\ frame' = Frame(identity(curve), p1, n, 0, 0, 0)
    /\ pc' = "loop"
    /\ UNCHANGED <<curve, op, p1, p2, n, arg, res>>

\* the frame, position and result after the iteration that yields s
MulIterateTo(s) ==
    /\ frame' = s.fr
    /\ pc' = IF s.st = "ok" THEN "loop" ELSE "done"
    /\ res' = IF s.st = "ok" THEN res ELSE Panic

MulIterate ==
    /\ pc = "loop" /\ frame.n_c > 0
    /\ MulIterateTo(mul_iter(curve, frame))
    /\ UNCHANGED <<curve, op, p1, p2, n, arg>>

\* the loop is left; WeierstrassECC::mul normalizes r
MulReturn ==
    /\ pc = "loop" /\ ~(frame.n_c > 0)
    /\ res' = IF curve.kind = "W" THEN OkPt(W_normalize(curve, frame.r))
                                  ELSE OkPt(frame.r)
    /\ pc' = "done"
    /\ UNCHANGED <<curve, op, p1, p2, n, arg, frame>>

NextMulLoop == MulEnter \/ MulIterate \/ MulReturn

SpecMulLoop == InitMulLoop /\ [][NextMulLoop]_vars

Next ==
    \/ Add \/ Double \/ Mul \/ Order \/ IsValid \/ At \/ New \/ DsaNew
    \/ ModInv \/ TonelliShanks \/ EqAffine

Spec == Init /\ [][Next]_vars

TypeOK ==
    /\ curve \in Curves \cup NewArgs
    /\ op \in Ops
    /\ pc \in {"call", "loop", "done"}
    /\ res.st \in {"none", "ok", "err", "panic"}

(***************************************************************************)
(* Vocabulary of the properties.                                           *)
(***************************************************************************)
Done == pc = "done"

Returned == Done /\ res.st = "ok"

\* p is the identity or a point of the curve, and is_valid accepts it
Member(c, p) == is_valid(c, p) /\ (p = identity(c) \/ OnCurve(c, p))

\* p is not the identity, whatever its z marker
Finite(c, p) == p.x # identity(c).x \/ p.y # identity(c).y

\* the same affine point: equal x and y modulo q
SamePoint(c, p, q) == Mod(p.x, c.q) = Mod(q.x, c.q) /\ Mod(p.y, c.q) = Mod(q.y, c.q)

\* the call is add, double or mul on operands that are points of the curve
GroupCall ==
    /\ Done
    /\ op \in {"add", "double", "mul"}
    /\ Member(curve, p1)
    /\ Member(curve, p2)

(***************************************************************************)
(* C1  Weierstrass closure: add, double and mul on valid points whose      *)
(* coordinates lie in [0,q) complete and return a point that is_valid      *)
(* accepts.                                                                *)
(* Fails: for q.x < p.x the chord divisor (q.x - p.x) % q is negative and  *)
(* mod_inv then returns the inverse with the wrong sign, so add returns a  *)
(* point off the curve.                                                    *)
(***************************************************************************)
C1_WeierstrassClosure ==
    (GroupCall /\ curve.kind = "W")
        => (res.st = "ok" /\ W_is_valid(curve, res.pt))

(***************************************************************************)
(* C2  Edwards / twisted-Edwards closure: every non-identity point that    *)
(* add, double or mul return for operands on the curve satisfies           *)
(* a*x^2 + y^2 = 1 + d*x^2*y^2 (mod q).                                    *)
(* Fails on EdwardsCurve: its add computes y3 from y1*y2 + x1*x2, the law  *)
(* of the curve with a = -1, whatever the curve's own a.                   *)
(***************************************************************************)
C2_EdwardsClosure ==
    (/\ Returned
     /\ op \in {"add", "double", "mul"}
     /\ curve.kind \in {"E", "T"}
     /\ OnCurve(curve, p1) /\ OnCurve(curve, p2)
     /\ res.pt # identity(curve))
        => OnCurve(curve, res.pt)

(***************************************************************************)
(* C3  Montgomery closure: the point add, double or mul return for valid   *)
(* operands is the identity (0,1,0) or satisfies B*y^2 = x^3 + A*x^2 + x.  *)
(* Fails: the chord divisor (q.x - p.x) % q can be negative, and mod_inv   *)
(* then returns the inverse with the wrong sign.                           *)
(***************************************************************************)
C3_MontgomeryClosure ==
    (GroupCall /\ curve.kind = "M" /\ res.st = "ok")
        => M_is_valid(curve, res.pt)

(***************************************************************************)
(* C4  The identity is neutral for add in every variant: for a valid p,    *)
(* add(identity, p) and add(p, identity) return p itself, z included.      *)
(* Fails on EdwardsCurve: its add has no identity case, it runs the        *)
(* addition formula and always returns z = 0, so a point with z = 1 does   *)
(* not come back unchanged.                                                *)
(***************************************************************************)
C4_IdentityNeutral ==
    (Done /\ op = "add" /\ Member(curve, p1) /\ Member(curve, p2))
        => /\ (p1 = identity(curve) => res = OkPt(p2))
           /\ (p2 = identity(curve) => res = OkPt(p1))

\* the negation of p: (x, -y) on Weierstrass and Montgomery, (-x, y) on the
\* Edwards models
Neg(c, p) ==
    IF c.kind \in {"W", "M"}
    THEN Pt(p.x, Mod(0 - p.y, c.q), p.z)
    ELSE Pt(Mod(0 - p.x, c.q), p.y, p.z)

(***************************************************************************)
(* C5  Inverse element: in every variant add(p, -p) returns the variant's  *)
(* identity for every valid p, a point that is its own negation included.  *)
(* Fails: Montgomery add(p, p) with p.y = 0 takes the doubling branch and  *)
(* panics on the divisor 0; Edwards add returns (0, y1*y2 + x1*x2); and    *)
(* twisted add returns (0, -1) when mod_inv is handed the divisor -1.      *)
(***************************************************************************)
C5_InverseElement ==
    (/\ Done /\ op = "add"
     /\ Member(curve, p1)
     /\ p1 # identity(curve)
     /\ p2 = Neg(curve, p1))
        => res = OkPt(identity(curve))

RECURSIVE RepAdd(_, _, _)
\* p added k times to the identity with the variant's add
RepAdd(c, k, p) ==
    IF k = 0
    THEN OkPt(identity(c))
    ELSE LET prev == RepAdd(c, k - 1, p)
         IN  IF prev.st # "ok" THEN Panic ELSE add(c, prev.pt, p)

(***************************************************************************)
(* C6  mul is repeated addition: whenever mul(n, p) and n applications of  *)
(* add(., p) to the identity both return, they return the same curve       *)
(* point (equal x and y modulo q).                                         *)
(* Fails: add is not associative in the code (see C1, C2, C3), so the      *)
(* doubling chain of mul and the chain of n additions part ways.           *)
(***************************************************************************)
C6_MulIsRepeatedAdd ==
    (Returned /\ op = "mul" /\ Member(curve, p1))
        => LET rep == RepAdd(curve, n, p1)
           IN  rep.st = "ok" => SamePoint(curve, res.pt, rep.pt)

(***************************************************************************)
(* C7  mul(0, p) returns exactly the variant's identity point, for every   *)
(* point p (valid or not): the loop body never runs.                       *)
(***************************************************************************)
C7_MulZeroIsIdentity ==
    (Done /\ op = "mul" /\ n = 0) => res = OkPt(identity(curve))

\* mul(0, p) was called on a point other than the identity and returned it
C7_Witness ==
    /\ Done /\ op = "mul" /\ n = 0
    /\ p1 # identity(curve)
    /\ ~is_valid(curve, p1)
    /\ res = OkPt(identity(curve))

(***************************************************************************)
(* C8  mul(1, p) completes and returns a point affine-equal to p           *)
(* (eq_affine is true), whatever p's z marker, for every valid p.          *)
(* Fails: mul(1, p) runs one more doubling add(p, p) than it needs, which  *)
(* panics on Montgomery for p.y = 0; and eq_affine falls back to           *)
(* structural equality when either z is 0, while mul returns z = 1 on      *)
(* Weierstrass and z = 0 on Edwards.                                       *)
(***************************************************************************)
C8_MulOneIsPoint ==
    (Done /\ op = "mul" /\ n = 1 /\ Member(curve, p1))
        => /\ res.st = "ok"
           /\ eq_affine(res.pt, p1, curve.q) = OkVal(1)

(***************************************************************************)
(* C9  mul(2, p) is affine-equal to double(p) for every valid p; on        *)
(* y^2 = x^3 + 2x + 3 (mod 17), mul(2, (5,6)) is affine-equal to (15,12).  *)
(* Fails on Montgomery: mul(2, p) ends with the doubling add(2p, 2p),      *)
(* which panics when 2p has y = 0 (the panic of C5).                       *)
(***************************************************************************)
C9_MulTwoIsDouble ==
    (Done /\ op = "mul" /\ n = 2 /\ Member(curve, p1))
        => /\ res.st = "ok"
           /\ LET d == double(curve, p1)
              IN  d.st = "ok" /\ eq_affine(res.pt, d.pt, curve.q) = OkVal(1)
           /\ (curve = Cv("W", 2, 3, 17) /\ p1.x = 5 /\ p1.y = 6)
                 => eq_affine(res.pt, Pt(15, 12, 1), curve.q) = OkVal(1)

(***************************************************************************)
(* C10  Whenever order(g) returns n, n is the least positive integer with  *)
(* n*g = identity: mul(n, g) is the identity and mul(m, g) is not, for     *)
(* 0 < m < n.                                                              *)
(* Fails: order counts a chain of single additions, mul walks a doubling   *)
(* chain, and with the add of C1 / C2 / C3 the two chains disagree.        *)
(***************************************************************************)
C10_OrderIsLeast ==
    (Returned /\ op = "order" /\ Member(curve, p1) /\ Finite(curve, p1))
        => /\ mul(curve, res.val, p1) = OkPt(identity(curve))
           /\ \A m \in 1..(res.val - 1) :
                 mul(curve, m, p1) # OkPt(identity(curve))

\* every multiple g, 2g, ..., (q+1)g that the variant's add computes is the
\* identity or a point of the curve
WalkOnCurve(c, g) ==
    \A k \in 1..(c.q + 1) :
        LET r == RepAdd(c, k, g)
        IN  r.st = "ok" /\ (r.pt = identity(c) \/ OnCurve(c, r.pt))

(***************************************************************************)
(* C11  The bound of the order search never cuts off a valid point: for    *)
(* every valid generator g other than the identity whose multiples add     *)
(* computes on the curve, order(g) does not return the NotFound error.     *)
(* Fails: the search gives up once the count exceeds q, but a curve over   *)
(* q has up to q + 1 + 2*sqrt(q) points and a point can have that order:   *)
(* on the twisted curve a = 12, b = 2, q = 13 the point (2,9) has order    *)
(* 16, and order returns the error for it.                                 *)
(***************************************************************************)
C11_OrderBoundKeepsValid ==
    (/\ Done /\ op = "order"
     /\ Member(curve, p1) /\ Finite(curve, p1)
     /\ WalkOnCurve(curve, p1))
        => res # Err

(***************************************************************************)
(* C12  is_valid decides the defining equation: in every variant, for a    *)
(* point with coordinates in [0,q) whose (x, y) is not the identity's,     *)
(* is_valid is true exactly when the point satisfies the variant's         *)
(* equation with the curve's own coefficients; on the twisted curve        *)
(* a = 2, b = 3, q = 17 the point (1,3) is valid and (5,1) is not.         *)
(* Fails on TwistedCurve: is_valid tests -x^2 + y^2 - 1 - b*x^2*y^2 = 0,   *)
(* the equation of a = -1, and never reads the curve's a.                  *)
(***************************************************************************)
C12_IsValidIsEquation ==
    (Done /\ op = "is_valid" /\ Finite(curve, p1))
        => /\ (res.val = 1) <=> OnCurve(curve, p1)
           /\ (curve = Cv("T", 2, 3, 17) /\ p1.x = 1 /\ p1.y = 3) => res.val = 1
           /\ (curve = Cv("T", 2, 3, 17) /\ p1.x = 5 /\ p1.y = 1) => res.val = 0

(***************************************************************************)
(* C13  mod_inv(a, q) for a prime q: when a is coprime to q it returns v   *)
(* with (a * v) mod q = 1; when a shares a factor with q (a = 0 included)  *)
(* it returns the no-inverse error.                                        *)
(* Fails for negative a: the Euclid loop runs on i32 `/`, which truncates  *)
(* toward zero, so it can end with r = -1; `r > one` is then false and     *)
(* the t it returns is the inverse of -a.  With r = -q it returns Ok for   *)
(* a multiple of q.                                                        *)
(***************************************************************************)
C13_ModInvInverts ==
    (Done /\ op = "mod_inv")
        => IF Mod(arg, curve.q) # 0
           THEN res.st = "ok" /\ Mod(arg * res.val, curve.q) = 1
           ELSE res = Err

\* v is a nonzero square modulo q
IsResidue(v, q) == \E w \in 1..(q - 1) : Mod(w * w - v, q) = 0

(***************************************************************************)
(* C14  tonelli_shanks(a, p) for an odd prime p and a in [0,p): for a      *)
(* nonzero quadratic residue a it returns x with x^2 mod p = a; for a      *)
(* non-residue it returns failure; for a = 0 it returns 0.                 *)
(***************************************************************************)
C14_TonelliShanksRoot ==
    (Done /\ op = "tonelli_shanks" /\ arg \in 0..(curve.q - 1))
        => IF arg = 0 THEN res = OkVal(0)
           ELSE IF IsResidue(arg, curve.q)
                THEN res.st = "ok" /\ Mod(res.val * res.val, curve.q) = arg
                ELSE res = Err

\* a root was returned for a residue that needed the main loop: a^q # 1 for
\* the odd part q of p - 1
C14_Witness ==
    /\ Done /\ op = "tonelli_shanks"
    /\ arg \in 1..(curve.q - 1)
    /\ IsResidue(arg, curve.q)
    /\ modpow(arg, ts_odd_part(curve.q - 1, 0)[1], curve.q) # 1
    /\ res.st = "ok"
    /\ Mod(res.val * res.val, curve.q) = arg

\* the right-hand side x^3 + a*x + b of the Weierstrass equation, modulo q
W_rhs(c, x) == Mod(x * x * x + c.a * x + c.b, c.q)

(***************************************************************************)
(* C15  Weierstrass at round-trip: for x in [0,q) whose right-hand side    *)
(* x^3 + a*x + b is zero or a quadratic residue mod q, at(x) returns two   *)
(* points that both have x-coordinate x, both pass is_valid, and whose     *)
(* y-coordinates sum to 0 mod q; for x whose right-hand side is a          *)
(* non-residue, and for x >= q, at(x) returns an error.                    *)
(***************************************************************************)
C15_WeierstrassAtRoundTrip ==
    (Done /\ op = "at" /\ curve.kind = "W" /\ arg >= 0)
        => IF /\ arg < curve.q
              /\ (W_rhs(curve, arg) = 0 \/ IsResidue(W_rhs(curve, arg), curve.q))
           THEN /\ res.st = "ok"
                /\ res.pt.x = arg /\ res.pt2.x = arg
                /\ W_is_valid(curve, res.pt) /\ W_is_valid(curve, res.pt2)
                /\ Mod(res.pt.y + res.pt2.y, curve.q) = 0
           ELSE res = Err

\* at(x) returned two different points of the curve over the same x
C15_Witness ==
    /\ Done /\ op = "at" /\ curve.kind = "W"
    /\ arg \in 0..(curve.q - 1)
    /\ IsResidue(W_rhs(curve, arg), curve.q)
    /\ res.st = "ok"
    /\ res.pt.x = arg /\ res.pt2.x = arg
    /\ res.pt.y # res.pt2.y
    /\ OnCurve(curve, res.pt) /\ OnCurve(curve, res.pt2)

(***************************************************************************)
(* C16  Edwards / twisted-Edwards coordinate recovery: on a curve over a   *)
(* prime q = 5 (mod 8), for every y in [0,q) that is the y of some point   *)
(* of the curve, at(y) returns two points that both have y-coordinate y,   *)
(* both satisfy the curve's equation, and whose x-coordinates are          *)
(* negations of each other mod q, the first being even and in [0,q).       *)
(* Fails on EdwardsCurve: xrecover computes x^2 = (y^2 - 1)/(d*y^2 + 1),   *)
(* the solution of the equation with a = -1, whatever the curve's a, so    *)
(* the points it returns are off the curve a*x^2 + y^2 = 1 + d*x^2*y^2.    *)
(***************************************************************************)
C16_EdwardsAtRecovers ==
    (/\ Done /\ op = "at"
     /\ curve.kind \in {"E", "T"}
     /\ curve.q % 8 = 5
     /\ arg \in 0..(curve.q - 1)
     /\ \E x \in 0..(curve.q - 1) : OnCurve(curve, Pt(x, arg, 0)))
        => /\ res.st = "ok"
           /\ res.pt.y = arg /\ res.pt2.y = arg
           /\ OnCurve(curve, res.pt) /\ OnCurve(curve, res.pt2)
           /\ Mod(res.pt.x + res.pt2.x, curve.q) = 0
           /\ res.pt.x \in 0..(curve.q - 1)
           /\ res.pt.x % 2 = 0

\* a call in which the only step that can abort is the .expect() / .unwrap()
\* on the result of mod_inv: eq_affine, and add, double, mul and order of
\* the variants whose add asserts nothing about its operands
DivisionOnlyCall ==
    /\ Done
    /\ \/ op = "eq_affine"
       \/ op \in {"add", "double", "mul", "order"} /\ curve.kind \in {"E", "T", "M"}

(***************************************************************************)
(* C17  Non-invertible divisors fail cleanly: when a division inside add,  *)
(* double, mul, order or eq_affine meets a divisor with no inverse modulo  *)
(* q, the call returns the failure to its caller; it never aborts.         *)
(* Fails: add and eq_affine unwrap the result of mod_inv with .expect() /  *)
(* .unwrap(), and their return types (Point, bool) have no failure value,  *)
(* so a divisor without inverse aborts the call.                           *)
(***************************************************************************)
C17_NoInverseFailsCleanly ==
    DivisionOnlyCall => res.st # "panic"

(***************************************************************************)
(* C18  Invalid operands are reported, not computed on: in every variant   *)
(* add given an operand that is_valid rejects, and order given such a      *)
(* generator, do not return a result (a point, an order).                  *)
(* Fails: only WeierstrassECC checks its operands (add asserts, order      *)
(* returns an error); add and order of EdwardsCurve, TwistedCurve and      *)
(* MontgomeryCurve never call is_valid and compute on whatever they get.   *)
(***************************************************************************)
C18_InvalidOperandReported ==
    (/\ Done
     /\ \/ op = "add" /\ (~is_valid(curve, p1) \/ ~is_valid(curve, p2))
        \/ op = "order" /\ ~is_valid(curve, p1))
        => res.st # "ok"

\* constructor arguments that the variants must reject
Degenerate(c) ==
    \/ c.q <= 2
    \/ c.a = 0
    \/ c.b = 0
    \/ c.kind = "T" /\ c.a = c.b

(***************************************************************************)
(* C19  Every variant's constructor rejects degenerate parameters: when    *)
(* q <= 2, when a coefficient is zero, or (twisted Edwards) when the two   *)
(* coefficients are equal, the constructor returns no instance.            *)
(* Fails on EdwardsCurve: its new asserts nothing and builds the curve     *)
(* from any a, d and any q >= 1.                                           *)
(***************************************************************************)
C19_ConstructorRejects ==
    (Done /\ op = "new" /\ Degenerate(curve)) => res.st # "ok"

\* the inverse of z modulo the prime q, for z not a multiple of q
InvOf(z, q) == CHOOSE w \in 1..(q - 1) : Mod(z * w, q) = 1

\* x/z and y/z of the two points are congruent modulo q
AffineEqual(p, o, q) ==
    /\ Mod(p.x * InvOf(p.z, q) - o.x * InvOf(o.z, q), q) = 0
    /\ Mod(p.y * InvOf(p.z, q) - o.y * InvOf(o.z, q), q) = 0

(***************************************************************************)
(* C20  Affine equality: for two points whose z are both nonzero and       *)
(* invertible mod q, eq_affine is true exactly when x/z and y/z of the two *)
(* points are congruent mod q; when either z is 0 it returns the           *)
(* structural equality of the two (x, y, z) triples; and it is symmetric   *)
(* in its two points.                                                      *)
(***************************************************************************)
C20_AffineEquality ==
    (Done /\ op = "eq_affine")
        => /\ (p1.z = 0 \/ p2.z = 0)
                 => res = OkVal(IF p1 = p2 THEN 1 ELSE 0)
           /\ (/\ p1.z # 0 /\ Mod(p1.z, curve.q) # 0
               /\ p2.z # 0 /\ Mod(p2.z, curve.q) # 0)
                 => /\ res.st = "ok"
                    /\ (res.val = 1) <=> AffineEqual(p1, p2, curve.q)
           /\ res = eq_affine(p2, p1, curve.q)

\* eq_affine answered true for two different triples that are the same
\* affine point
C20_Witness ==
    /\ Done /\ op = "eq_affine"
    /\ p1.z # 0 /\ p2.z # 0 /\ p1.z # p2.z
    /\ Mod(p1.z, curve.q) # 0 /\ Mod(p2.z, curve.q) # 0
    /\ p1.x # p2.x
    /\ AffineEqual(p1, p2, curve.q)
    /\ res = OkVal(1)

(***************************************************************************)
(* C21  add is commutative: in every variant, for valid points p1, p2      *)
(* with coordinates in [0,q), add(p1, p2) and add(p2, p1) either both      *)
(* fail or return points with the same x and y.                            *)
(* Fails: the chord divisor (q.x - p.x) % q is negative in one of the two  *)
(* orders when the x-coordinates differ, and mod_inv then returns the      *)
(* inverse with the wrong sign (C13), so one order gets the slope and the  *)
(* other its negation.                                                     *)
(***************************************************************************)
C21_AddCommutes ==
    (Done /\ op = "add" /\ Member(curve, p1) /\ Member(curve, p2))
        => LET swapped == add(curve, p2, p1)
           IN  /\ (res.st = "ok") <=> (swapped.st = "ok")
               /\ res.st = "ok"
                     => /\ res.pt.x = swapped.pt.x
                        /\ res.pt.y = swapped.pt.y

\* x and y of p lie in [0,q)
Reduced(c, p) == p.x \in 0..(c.q - 1) /\ p.y \in 0..(c.q - 1)

(***************************************************************************)
(* C22  Reduced-range invariant: for valid operands whose coordinates lie  *)
(* in [0,q), every point returned by add, double or mul, in every          *)
(* variant, has x and y in [0,q).                                          *)
(* Fails on TwistedCurve: edwards_add leaves y3 as the i32 remainder of    *)
(* (y1*y2 - a*x1*x2) * inv_denom2, a product that can be negative, and     *)
(* `%` keeps the sign of the dividend.                                     *)
(***************************************************************************)
C22_ReducedRange ==
    (GroupCall /\ res.st = "ok") => Reduced(curve, res.pt)

\* ceil(log2(v)) for v >= 1: the least b with 2^b >= v
CeilLog2(v) == CHOOSE b \in 0..v : 2 ^ b >= v /\ \A e \in 0..(b - 1) : 2 ^ e < v

(***************************************************************************)
(* C23  Scalar multiplication terminates: for every scalar n >= 0 and      *)
(* valid point p, mul runs its double-and-add loop exactly                 *)
(* ceil(log2(n+1)) times and then returns, each iteration making exactly   *)
(* one doubling add(m, m) and at most one accumulation add(r, m).          *)
(* Fails: an add inside the loop can panic for a valid p, and the call     *)
(* then ends in the middle of an iteration without returning.              *)
(***************************************************************************)
C23_MulLoopCount ==
    (pc = "done" /\ op = "mul" /\ Member(curve, p1))
        => /\ res.st = "ok"
           /\ frame.iters = CeilLog2(n + 1)
           /\ frame.doubles = frame.iters
           /\ frame.adds <= frame.iters

=============================================================================
